---- MODULE Spec2Model ----
(***************************************************************************)
(* Authentication and request-admission core of the CortejTech backend:    *)
(*   app/middleware/rate_limit.py   RateLimitMiddleware (sliding window)   *)
(*   app/core/security.py           HMAC admin session, get_current_user   *)
(*   app/core/auth0_security.py     Auth0 JWT verification and fallback    *)
(*   app/routers/auth.py            /session-login, /is-admin, /logout     *)
(* Time is in whole seconds (time.time() / datetime.now().timestamp()).    *)
(***************************************************************************)
EXTENDS Integers, Sequences, FiniteSets, TLC

(* ------------------------------ bounds --------------------------------- *)
\* requests_per_minute is a constructor parameter (default 100); the model
\* runs the middleware with a small limit.
requests_per_minute == 2
MaxClock == 62
MaxReqs == 4
MaxInflight == 2

(* -------------------------- program constants -------------------------- *)
WindowSeconds == 60
DevWorkers == 1
ProdWorkers == 4

Clients == {"10.0.0.1", "10.0.0.2"}
Methods == {"GET", "OPTIONS"}
Paths == {"/health", "/", "/docs", "/redoc", "/api/team"}
ExemptPaths == {"/health", "/", "/docs", "/redoc"}
Environments == {"development", "production"}
\* clock advances between two requests
ClockSteps == {30, 31}

NoDecision == [worker |-> 0, client |-> "", outcome |-> "none"]
NoResponse == [status |-> 0, remaining |-> -1, retry_after |-> -1, limit |-> -1,
               len_after |-> -1]
\* what the downstream application answers to a request passed on unthrottled
PassedResponse == [status |-> 200, remaining |-> -1, retry_after |-> -1, limit |-> -1,
                   len_after |-> -1]

VARIABLES
    ENVIRONMENT,   \* os.getenv("ENVIRONMENT"), fixed at process start
    clock,         \* the wall clock, seconds
    requests,      \* per worker process: self.requests, client key -> deque
    inflight,      \* admitted requests whose dispatch is suspended in `await call_next` (line 57)
    nreq,          \* number of requests received so far
    decision,      \* what dispatch did with the latest request it received
    response,      \* the latest response dispatch returned
    admitted,      \* history: per worker and client, timestamps of admitted requests
    ADMIN_SESSION_SECRET,  \* settings.ADMIN_SESSION_SECRET of the running process
    cookie,        \* the admin_session cookie the browser holds (<<>>: none)
    call,          \* the latest call of the authentication core: arguments and outcome
    DEBUG,         \* settings.DEBUG
    jwks           \* the lru_cache slot of get_auth0_jwks

rlvars == <<requests, inflight, nreq, decision, response, admitted>>
sessvars == <<ADMIN_SESSION_SECRET, cookie>>
a0vars == <<DEBUG, jwks>>
vars == <<ENVIRONMENT, clock, requests, inflight, nreq, decision, response, admitted,
          ADMIN_SESSION_SECRET, cookie, call, DEBUG, jwks>>

(* ------------------- uvicorn.run(workers=...) -------------------------- *)
NumWorkers(env) == IF env = "development" THEN DevWorkers ELSE ProdWorkers
\* the worker processes the model routes requests to: the first two of the pool
AllWorkers == {1, 2}
Workers == {w \in AllWorkers : w <= NumWorkers(ENVIRONMENT)}

(* ------------------- RateLimitMiddleware.dispatch ---------------------- *)
\* client_ip = request.client.host
client_ip_shared(c) == "shared"
client_ip(c) == c

\* self.requests[client_ip] on a defaultdict(deque): a missing key reads as empty
Window(w, k) == IF k \in DOMAIN requests[w] THEN requests[w][k] ELSE <<>>

\* while self.requests[ip] and self.requests[ip][0] < minute_ago: popleft()
Prune_keep_all(q, minute_ago) == q
RECURSIVE Prune_inclusive(_, _)
Prune_inclusive(q, minute_ago) ==
    IF q # <<>> /\ Head(q) <= minute_ago THEN Prune_inclusive(Tail(q), minute_ago) ELSE q
RECURSIVE Prune(_, _)
Prune(q, minute_ago) ==
    IF q # <<>> /\ Head(q) < minute_ago THEN Prune(Tail(q), minute_ago) ELSE q

\* len(self.requests[client_ip]) >= self.requests_per_minute
LimitReached_gt(q) == Len(q) > requests_per_minute
LimitReached(q) == Len(q) >= requests_per_minute

\* the two early returns of dispatch: lines 20-21 and 26-27
IsExempt_no_preflight(method, path) == path \in ExemptPaths
IsExempt(method, path) == method = "OPTIONS" \/ path \in ExemptPaths

\* the JSONResponse of a rejection: lines 39-51
TooManyRequests_no_retry ==
    [status |-> 429, remaining |-> 0, retry_after |-> -1,
     limit |-> requests_per_minute, len_after |-> -1]
TooManyRequests ==
    [status |-> 429, remaining |-> 0, retry_after |-> 60,
     limit |-> requests_per_minute, len_after |-> -1]

\* remaining = max(0, self.requests_per_minute - len(self.requests[client_ip]))
Remaining(q) == IF requests_per_minute - Len(q) > 0 THEN requests_per_minute - Len(q) ELSE 0

\* self.requests[client_ip] after lines 33-54: the deque of client_ip is
\* mutated in place (popleft, append); no entry of the dict is ever deleted
StoreWindow_evict_stale(ws, k, q) ==
    [x \in {k} \cup {y \in DOMAIN ws : ws[y] # <<>> /\ ws[y][Len(ws[y])] >= clock - WindowSeconds}
        |-> IF x = k THEN q ELSE ws[x]]
StoreWindow(ws, k, q) == (k :> q) @@ ws

\* dispatch, from entry up to (not including) the return of `await call_next`
\* or up to the 429 response: lines 18-57. No await in between: one atomic step.
DispatchEnter(w, c, method, path) ==
    /\ nreq < MaxReqs
    /\ nreq' = nreq + 1
    /\ IF IsExempt(method, path)
       THEN \* `return await call_next(request)`: nothing of dispatch runs afterwards
            /\ decision' = [worker |-> w, client |-> c, outcome |-> "pass"]
            /\ response' = PassedResponse
            /\ UNCHANGED <<requests, inflight, admitted>>
       ELSE LET k == client_ip(c)
                pruned == Prune(Window(w, k), clock - WindowSeconds)
            IN IF LimitReached(pruned)
               THEN /\ requests' = [requests EXCEPT ![w] = StoreWindow(@, k, pruned)]
                    /\ decision' = [worker |-> w, client |-> c, outcome |-> "reject"]
                    /\ response' = TooManyRequests
                    /\ UNCHANGED <<inflight, admitted>>
               ELSE /\ Cardinality(inflight) < MaxInflight
                    /\ requests' = [requests EXCEPT ![w] = StoreWindow(@, k, Append(pruned, clock))]
                    /\ inflight' = inflight \cup {[worker |-> w, client |-> c,
                                                   len_after |-> Len(pruned) + 1]}
                    /\ decision' = [worker |-> w, client |-> c, outcome |-> "admit"]
                    /\ admitted' = [admitted EXCEPT ![w][c] = Append(@, clock)]
                    /\ UNCHANGED response
    /\ UNCHANGED <<ENVIRONMENT, clock, sessvars, call, a0vars>>

\* dispatch, after `await call_next` returned: lines 57-65
DispatchReturn(r) ==
    /\ r \in inflight
    /\ inflight' = inflight \ {r}
    /\ response' = [status |-> 200,
                    remaining |-> Remaining(Window(r.worker, client_ip(r.client))),
                    retry_after |-> -1, limit |-> requests_per_minute,
                    len_after |-> r.len_after]
    /\ UNCHANGED <<ENVIRONMENT, clock, requests, nreq, decision, admitted, sessvars, call, a0vars>>

\* time passes
Tick(d, max) ==
    /\ clock + d <= max
    /\ clock' = clock + d
    /\ UNCHANGED <<ENVIRONMENT, rlvars, sessvars, call, a0vars>>

NoCall == [op |-> "none", at |-> 0, secret |-> ""]

\* one server as `python main.py` starts it with ENVIRONMENT=env
InitServer(env) ==
    /\ ENVIRONMENT = env
    /\ clock = 0
    /\ requests = [w \in AllWorkers |-> <<>>]
    /\ inflight = {}
    /\ nreq = 0
    /\ decision = NoDecision
    /\ response = NoResponse
    /\ admitted = [w \in AllWorkers |-> [c \in Clients |-> <<>>]]
    /\ ADMIN_SESSION_SECRET = ""
    /\ cookie = <<>>
    /\ call = NoCall
    /\ DEBUG = FALSE
    /\ jwks = [cached |-> FALSE, keys |-> {}]

\* the development server: uvicorn runs a single worker process, one
\* RateLimitMiddleware instance
InitRL == InitServer("development")
\* any deployment: development, or production with its pool of workers
InitDeployment == \E env \in Environments : InitServer(env)

Enter == \E w \in Workers, c \in Clients, m \in Methods, p \in Paths : DispatchEnter(w, c, m, p)
Return == \E r \in inflight : DispatchReturn(r)
TickRL == \E d \in ClockSteps : Tick(d, MaxClock)

NextRL == Enter \/ Return \/ TickRL

SpecRL == InitRL /\ [][NextRL]_vars
SpecDeployment == InitDeployment /\ [][NextRL]_vars

(* ================== app/core/security.py: admin session ================= *)
\* bounds of the session model
MaxAuthClock == 3602
AuthClockSteps == {1800, 1801}

ALLOWED_ADMIN_EMAIL == "giriankit595@outlook.com"
SESSION_TTL == 3600
Emails == {"giriankit595@outlook.com", "GiriAnkit595@Outlook.com", "info@cortejtech.com",
           "eve@example.com", ""}
Secrets == {"", "k1-shared-secret", "k2-shared-secret"}
TtlInputs == {0, 1, 3600}
ExpInputs == {0, 1801, 3600, 3603}

\* str.lower() on the addresses of the model
lower(e) == IF e = "GiriAnkit595@Outlook.com" THEN "giriankit595@outlook.com" ELSE e

\* is_admin_email: email.lower() == settings.ALLOWED_ADMIN_EMAIL.lower()
is_admin_email(email) == lower(email) = lower(ALLOWED_ADMIN_EMAIL)

\* number of decimal digits json.dumps writes for a non-negative int
Digits(n) == IF n < 10 THEN 1 ELSE IF n < 100 THEN 2 ELSE IF n < 1000 THEN 3
             ELSE IF n < 10000 THEN 4 ELSE 5

\* A string over the base64url alphabet and '.', as the sequence of its
\* '.'-separated segments.  A segment is
\*   kind "data": base64url text; json = TRUE when it is the unpadded
\*                encoding of a JSON object {email, iat, exp, v}, len its length
\*   kind "sig" : the unpadded base64url of HMAC-SHA256(key, over), `over`
\*                being the signed string (HMAC taken as collision free)
Segment(kind, json, email, iat, exp, len, key, over) ==
    [kind |-> kind, json |-> json, email |-> email, iat |-> iat, exp |-> exp,
     len |-> len, key |-> key, over |-> over]

\* base64.urlsafe_b64encode(data).decode().rstrip("="), as the length of its
\* result for `n` input bytes
_b64url(n) == 4 * ((n + 2) \div 3) - ((3 - (n % 3)) % 3)

\* len(json.dumps({"email":e,"iat":iat,"exp":exp,"v":1}, separators=(",",":")))
PayloadJsonLen(email, iat, exp) == 32 + Len(email) + Digits(iat) + Digits(exp)

\* payload_b64 = _b64url(json.dumps(payload, ...).encode())
payload_b64(email, iat, exp) ==
    Segment("data", TRUE, email, iat, exp, _b64url(PayloadJsonLen(email, iat, exp)), "", <<>>)
\* base64url text that is not the encoding of a JSON object
NotJson == Segment("data", FALSE, "", 0, 0, 8, "", <<>>)

\* _b64url(hmac.new(secret, msg, hashlib.sha256).digest())
hmac_sig(secret, msg) == Segment("sig", FALSE, "", 0, 0, _b64url(32), secret, msg)

\* exp of the payload: now + ttl_seconds
exp_of(now, ttl_seconds) == now + ttl_seconds

\* sign_admin_session raises RuntimeError when the secret is not configured
sign_raises_never(secret) == FALSE
sign_raises(secret) == secret = ""
\* sign_admin_session(email, ttl_seconds): f"{payload_b64}.{sig_b64}"
sign_admin_session(email, ttl_seconds, now, secret) ==
    LET p == payload_b64(email, now, exp_of(now, ttl_seconds))
    IN <<p, hmac_sig(secret, <<p>>)>>

\* the result of a function returning Optional[str]
None == [ok |-> FALSE, email |-> ""]
Some(email) == [ok |-> TRUE, email |-> email]

\* hmac.compare_digest(_b64url(expected_sig), sig_b64)
compare_digest_any(expected, sig_b64) == TRUE
compare_digest(expected, sig_b64) == expected = sig_b64

\* now >= exp
expired_strict(now, exp) == now > exp
expired(now, exp) == now >= exp

\* pad = "=" * (-len(payload_b64) % 4); urlsafe_b64decode(payload_b64 + pad)
\* succeeds only on a padded length that is a multiple of 4
pad_wrong(len) == len % 4
pad(len) == (4 - (len % 4)) % 4
b64decode_ok(seg) == seg.kind = "data" /\ (seg.len + pad(seg.len)) % 4 = 0

\* payload_b64, sig_b64 = token.split(".", 1): the text before the first
\* '.', and everything after it (further '.' included)
split_last(token) ==
    [payload_b64 |-> SubSeq(token, 1, Len(token) - 1), sig_b64 |-> <<token[Len(token)]>>]
split(token) ==
    [payload_b64 |-> <<token[1]>>, sig_b64 |-> SubSeq(token, 2, Len(token))]

\* lines 155-157: the HMAC of payload_b64 under the secret against sig_b64
signature_matches(token, secret) ==
    compare_digest(<<hmac_sig(secret, split(token).payload_b64)>>, split(token).sig_b64)

\* line 163 is reached: the payload is base64-decoded and parsed
payload_parsed(token, secret) ==
    Len(token) >= 2 /\ secret # "" /\ signature_matches(token, secret)

\* urlsafe_b64decode + json.loads succeed.  b64decode drops a '.', so a
\* payload of several segments decodes as their concatenation, which for
\* the segments of this model is no JSON text
payload_decodes(p_b64) ==
    Len(p_b64) = 1 /\ b64decode_ok(p_b64[1]) /\ p_b64[1].json

\* verify_admin_session(token)
verify_admin_session(token, now, secret) ==
    IF token = <<>> \/ Len(token) < 2 \/ secret = "" THEN None
    ELSE LET p_b64 == split(token).payload_b64
         IN IF ~signature_matches(token, secret) THEN None
            ELSE IF ~payload_decodes(p_b64) THEN None             \* except Exception
            ELSE IF expired(now, p_b64[1].exp) THEN None
            ELSE IF p_b64[1].email # "" THEN Some(p_b64[1].email)
            ELSE None

\* why verify_admin_session returned None: the signature matched and the
\* payload parsed, but now >= exp
rejected_for_expiry(token, now, secret) ==
    /\ Len(token) = 2 /\ secret # ""
    /\ token[2] = hmac_sig(secret, <<token[1]>>)
    /\ token[1].kind = "data" /\ token[1].json
    /\ now >= token[1].exp

\* tokens handed to verify_admin_session: well formed under every secret,
\* signature over another payload, no '.', several '.', non-JSON payload
GoodTokens == {<<payload_b64(e, 0, x), hmac_sig(k, <<payload_b64(e, 0, x)>>)>> :
                  e \in {ALLOWED_ADMIN_EMAIL, "eve@example.com", ""},
                  x \in ExpInputs, k \in Secrets}
OddTokens ==
    LET p == payload_b64(ALLOWED_ADMIN_EMAIL, 0, 3603)
        q == payload_b64("eve@example.com", 0, 3603)
    IN UNION {{ <<>>, <<p>>, <<p, hmac_sig(k, <<q>>)>>, <<p, p>>,
                <<p, hmac_sig(k, <<p>>), NotJson>>,
                <<p, NotJson, hmac_sig(k, <<p, NotJson>>)>>,
                <<NotJson, hmac_sig(k, <<NotJson>>)>>,
                <<hmac_sig(k, <<p>>), hmac_sig(k, <<hmac_sig(k, <<p>>)>>)>> } : k \in Secrets}
TokenInputs == GoodTokens \cup OddTokens

\* the process is started with its settings; Settings validation refuses a
\* production start without ADMIN_SESSION_SECRET
settings_valid(env, secret) == env = "production" => secret # ""

\* the process is restarted with another ADMIN_SESSION_SECRET
Restart(secret) ==
    /\ secret # ADMIN_SESSION_SECRET
    /\ settings_valid(ENVIRONMENT, secret)
    /\ ADMIN_SESSION_SECRET' = secret
    /\ call' = [op |-> "restart", at |-> clock, secret |-> secret]
    /\ UNCHANGED <<ENVIRONMENT, clock, rlvars, cookie, a0vars>>

\* a caller signs a session and verifies it at once
SignAndVerify(email, ttl) ==
    /\ call' = IF sign_raises(ADMIN_SESSION_SECRET)
               THEN [op |-> "sign", at |-> clock, secret |-> ADMIN_SESSION_SECRET,
                     email |-> email, ttl |-> ttl, raised |-> TRUE,
                     token |-> <<>>, result |-> None]
               ELSE LET t == sign_admin_session(email, ttl, clock, ADMIN_SESSION_SECRET)
                    IN [op |-> "sign", at |-> clock, secret |-> ADMIN_SESSION_SECRET,
                        email |-> email, ttl |-> ttl, raised |-> FALSE,
                        token |-> t,
                        result |-> verify_admin_session(t, clock, ADMIN_SESSION_SECRET)]
    /\ UNCHANGED <<ENVIRONMENT, clock, rlvars, sessvars, a0vars>>

\* verify_admin_session on any token
VerifyCall(token) ==
    /\ call' = [op |-> "verify", at |-> clock, secret |-> ADMIN_SESSION_SECRET,
                token |-> token,
                sig_ok |-> (Len(token) >= 2 /\ signature_matches(token, ADMIN_SESSION_SECRET)),
                decoded |-> payload_parsed(token, ADMIN_SESSION_SECRET),
                result |-> verify_admin_session(token, clock, ADMIN_SESSION_SECRET)]
    /\ UNCHANGED <<ENVIRONMENT, clock, rlvars, sessvars, a0vars>>

(* ============ app/core/security.py: get_current_user ==================== *)
\* The Authorization bearer value as get_current_user reads it:
\*   kind "none"   : no Authorization header (credentials is None)
\*   kind "b64json": standard base64 of a JSON object; email = "" when the
\*                   object has no (or an empty) email, timestamp in ms
\*                   (0 when absent: session_data.get('timestamp', 0))
\*   kind "other"  : any other string (a JWT, a session token, noise)
Bearer(kind, email, timestamp, len) ==
    [kind |-> kind, email |-> email, timestamp |-> timestamp, len |-> len]
NoBearer == Bearer("none", "", 0, 0)
\* base64.b64encode of {"email":"<e>","timestamp":<13 digits>}
B64Json(email, timestamp) ==
    Bearer("b64json", email, timestamp, 4 * ((38 + Len(email) + 2) \div 3))
TimestampInputs == {0, 1000, 9000000}
BearerInputs == {NoBearer, Bearer("other", "", 0, 12), Bearer("other", "", 0, 400)}
                \cup {B64Json(e, ts) : e \in Emails \ {"info@cortejtech.com"},
                                      ts \in TimestampInputs}
AdminCookieInputs ==
    {<<>>, sign_admin_session(ALLOWED_ADMIN_EMAIL, 1801, 0, "k1-shared-secret"),
     sign_admin_session(ALLOWED_ADMIN_EMAIL, 3603, 0, "k1-shared-secret")}
CookieInputs ==
    AdminCookieInputs \cup {sign_admin_session("eve@example.com", 3603, 0, "k1-shared-secret")}

\* what get_current_user returns: None or {"email": email, "is_admin": True}
UserNone == [ok |-> FALSE, email |-> "", is_admin |-> FALSE]
AdminUser(email) == [ok |-> TRUE, email |-> email, is_admin |-> TRUE]

\* Method 1 of get_current_user (lines 69-89): the bearer value decodes to a
\* JSON object naming the admin email with a timestamp less than 1 hour old
bearer_session_ok(bearer, now) ==
    /\ bearer.kind # "none" /\ bearer.len > 20
    /\ bearer.kind = "b64json"
    /\ bearer.email # "" /\ is_admin_email(bearer.email)
    /\ now * 1000 - bearer.timestamp < 3600000

\* get_current_user(request, credentials)
get_current_user(bearer, cookie_token, now, secret) ==
    IF bearer_session_ok(bearer, now) THEN AdminUser(bearer.email)
    ELSE IF cookie_token # <<>>
         THEN LET r == verify_admin_session(cookie_token, now, secret)
              IN IF r.ok /\ is_admin_email(r.email) THEN AdminUser(r.email) ELSE UserNone
         ELSE UserNone

GetCurrentUserCall(bearer, cookie_token) ==
    /\ call' = [op |-> "get_current_user", at |-> clock, secret |-> ADMIN_SESSION_SECRET,
                bearer |-> bearer, cookie |-> cookie_token,
                result |-> get_current_user(bearer, cookie_token, clock, ADMIN_SESSION_SECRET)]
    /\ UNCHANGED <<ENVIRONMENT, clock, rlvars, sessvars, a0vars>>

GetCurrentUser == \E b \in BearerInputs, c \in CookieInputs \cup {cookie} : GetCurrentUserCall(b, c)

InitSession ==
    /\ ENVIRONMENT \in Environments
    /\ clock = 0
    /\ requests = [w \in AllWorkers |-> <<>>]
    /\ inflight = {}
    /\ nreq = 0
    /\ decision = NoDecision
    /\ response = NoResponse
    /\ admitted = [w \in AllWorkers |-> [c \in Clients |-> <<>>]]
    /\ ADMIN_SESSION_SECRET \in Secrets
    /\ settings_valid(ENVIRONMENT, ADMIN_SESSION_SECRET)
    /\ cookie = <<>>
    /\ call = NoCall
    /\ DEBUG = FALSE
    /\ jwks = [cached |-> FALSE, keys |-> {}]

TickSession == \E d \in AuthClockSteps : Tick(d, MaxAuthClock)
RestartAny == \E k \in Secrets : Restart(k)
Sign == \E e \in Emails, ttl \in TtlInputs : SignAndVerify(e, ttl)
Verify == \E t \in TokenInputs \cup {cookie} : VerifyCall(t)

(* ===================== app/core/auth0_security.py ======================= *)
AUTH0_ISSUER == "https://cortejtech.us.auth0.com/"
AUTH0_AUDIENCE == "https://cortejtech-api.local"
ALGORITHMS == {"RS256"}
\* Settings declares no NEXT_PUBLIC_AUTH0_CLIENT_ID field (extra="ignore"):
\* reading settings.NEXT_PUBLIC_AUTH0_CLIENT_ID raises AttributeError
settings_has_client_id == FALSE
NEXT_PUBLIC_AUTH0_CLIENT_ID == "frontend-client-id"
\* SKIP_AUDIENCE_CHECK = settings.ENVIRONMENT == "development" and settings.DEBUG
SKIP_AUDIENCE_CHECK == ENVIRONMENT = "development" /\ DEBUG

\* key sets the JWKS endpoint may serve; a key is named by its kid
KeySets == {{"B"}, {"A", "B"}}
FetchOutcomes == {[ok |-> FALSE, keys |-> {}]} \cup {[ok |-> TRUE, keys |-> ks] : ks \in KeySets}
NoJwks == [cached |-> FALSE, keys |-> {}]
\* what the GET of the JWKS url can do during a call: the request is sent
\* only on a cache miss, so with a cached key set there is no outcome to draw
FetchChoices == IF jwks.cached THEN {[ok |-> FALSE, keys |-> {}]} ELSE FetchOutcomes

\* A bearer JWT: present = FALSE when the request has no bearer credentials;
\* wellformed: header and claims parse; signer: the kid of the key whose
\* private half made the signature ("altered": no key verifies it);
\* exp, iat, nbf in seconds, -1 when the claim is absent;
\* aud_kind "absent" | "str" | "list", aud the set of audience strings;
\* email: the email claim, AbsentClaim when the payload has none;
\* is_admin: the payload carries an is_admin / role claim naming an admin
AbsentClaim == "<absent>"
Jwt(present, wellformed, kid, alg, signer, exp, iat, nbf, iss, aud_kind, aud, sub, email) ==
    [present |-> present, wellformed |-> wellformed, kid |-> kid, alg |-> alg,
     signer |-> signer, exp |-> exp, iat |-> iat, nbf |-> nbf, iss |-> iss,
     aud_kind |-> aud_kind, aud |-> aud, sub |-> sub, email |-> email, is_admin |-> FALSE]
NoJwt == Jwt(FALSE, FALSE, "", "", "", -1, -1, -1, "", "absent", {}, "", "")
\* a token signed by key A with the configured issuer, and single deviations
GoodJwt(kid, signer, exp, aud_kind, aud) ==
    Jwt(TRUE, TRUE, kid, "RS256", signer, exp, 0, -1, AUTH0_ISSUER, aud_kind, aud,
        "auth0|1", ALLOWED_ADMIN_EMAIL)
AudInputs == {<<"absent", {}>>, <<"str", {AUTH0_AUDIENCE}>>,
              <<"list", {AUTH0_AUDIENCE, "https://cortejtech.us.auth0.com/userinfo"}>>,
              <<"list", {"https://other.example"}>>}
JwtInputs ==
    {NoJwt, Jwt(TRUE, FALSE, "", "", "", -1, -1, -1, "", "absent", {}, "", "")}
    \cup {GoodJwt(kid, signer, 3603, a[1], a[2]) :
            kid \in {"A", "B"}, signer \in {"A", "altered"}, a \in AudInputs}
    \cup {GoodJwt("B", "B", 3603, "list", {AUTH0_AUDIENCE}),
          GoodJwt("A", "A", 1801, "list", {AUTH0_AUDIENCE}),
          GoodJwt("A", "A", 1801, "str", {AUTH0_AUDIENCE}),
          GoodJwt("A", "A", 3603, "str", {NEXT_PUBLIC_AUTH0_CLIENT_ID}),
          [GoodJwt("A", "A", 3603, "list", {AUTH0_AUDIENCE}) EXCEPT !.alg = "HS256"],
          [GoodJwt("A", "A", 3603, "list", {AUTH0_AUDIENCE})
              EXCEPT !.iss = "https://evil.example/"],
          [GoodJwt("A", "A", 3603, "list", {AUTH0_AUDIENCE}) EXCEPT !.email = "eve@example.com"],
          [GoodJwt("A", "A", 3603, "list", {AUTH0_AUDIENCE}) EXCEPT !.iat = -1],
          [GoodJwt("A", "A", 3603, "list", {AUTH0_AUDIENCE}) EXCEPT !.nbf = 3603]}

\* get_auth0_jwks under @lru_cache(maxsize=1): a cached value is returned
\* without a fetch; a fetch that raises caches nothing
get_auth0_jwks_always_fetch(cache, fetch) ==
    IF fetch.ok THEN [raised |-> 0, keys |-> fetch.keys,
                      cache |-> [cached |-> TRUE, keys |-> fetch.keys]]
    ELSE [raised |-> 503, keys |-> {}, cache |-> cache]
get_auth0_jwks(cache, fetch) ==
    IF cache.cached THEN [raised |-> 0, keys |-> cache.keys, cache |-> cache]
    ELSE IF fetch.ok THEN [raised |-> 0, keys |-> fetch.keys,
                           cache |-> [cached |-> TRUE, keys |-> fetch.keys]]
    ELSE [raised |-> 503, keys |-> {}, cache |-> cache]

\* get_auth0_public_key(token): the key whose kid equals the header's kid
get_auth0_public_key(token, cache, fetch) ==
    IF ~token.wellformed THEN [raised |-> 401, key |-> "", cache |-> cache]
    ELSE LET j == get_auth0_jwks(cache, fetch)
         IN IF j.raised # 0 THEN [raised |-> j.raised, key |-> "", cache |-> j.cache]
            ELSE IF token.kid \in j.keys THEN [raised |-> 0, key |-> token.kid, cache |-> j.cache]
            ELSE [raised |-> 401, key |-> "", cache |-> j.cache]

\* jwt.decode(token, public_key, algorithms, audience, issuer, options): the
\* exception class it raises, "" when it returns the payload.  python-jose
\* verifies the signature first, then the required claims, iat, nbf, exp,
\* aud and iss in this order.
jwt_decode_error(token, key, expected_audience, verify_aud, now) ==
    IF token.alg \notin ALGORITHMS \/ token.signer # key THEN "JWTError"
    ELSE IF token.exp = -1 \/ token.iat = -1 THEN "JWTError"
    ELSE IF token.nbf # -1 /\ token.nbf > now THEN "JWTClaimsError"
    ELSE IF token.exp < now THEN "ExpiredSignatureError"
    ELSE IF verify_aud /\ token.aud_kind # "absent" /\ expected_audience \notin token.aud
         THEN "JWTClaimsError"
    ELSE IF token.iss # AUTH0_ISSUER THEN "JWTClaimsError"
    ELSE ""
\* 0 when the payload is returned, else the status verify_auth0_token maps
\* the raised error to (JWTError, ExpiredSignatureError, JWTClaimsError: 401)
jwt_decode(token, key, expected_audience, verify_aud, now) ==
    IF jwt_decode_error(token, key, expected_audience, verify_aud, now) = "" THEN 0 ELSE 401
\* the detail of the HTTPException of each except clause (lines 135-161)
detail_of(error) ==
    CASE error = "ExpiredSignatureError" -> "Token has expired"
      [] error = "JWTClaimsError" -> "Invalid token claims"
      [] error = "JWTError" -> "Invalid token"
      [] error = "" -> ""
      [] OTHER -> "Authentication error"

\* verify_auth0_token(token): status 200 with the payload, or the status of
\* the HTTPException it raises.  An HTTPException raised by
\* get_auth0_public_key is caught by `except Exception` and becomes 500.
verify_auth0_token(token, cache, fetch, now) ==
    LET pk == get_auth0_public_key(token, cache, fetch)
    IN IF pk.raised # 0
       THEN [status |-> 500, detail |-> detail_of("HTTPException"), cache |-> pk.cache]
       ELSE IF ~SKIP_AUDIENCE_CHECK /\ token.aud_kind = "str" /\ ~settings_has_client_id
            THEN [status |-> 500, detail |-> detail_of("AttributeError"), cache |-> pk.cache]
       ELSE LET expected_audience ==
                    IF token.aud_kind = "str" /\ token.aud = {NEXT_PUBLIC_AUTH0_CLIENT_ID}
                    THEN NEXT_PUBLIC_AUTH0_CLIENT_ID ELSE AUTH0_AUDIENCE
                d == jwt_decode(token, pk.key, expected_audience, ~SKIP_AUDIENCE_CHECK, now)
                e == jwt_decode_error(token, pk.key, expected_audience, ~SKIP_AUDIENCE_CHECK, now)
            IN [status |-> IF d = 0 THEN 200 ELSE d, detail |-> detail_of(e),
                cache |-> pk.cache]

\* what the Auth0 path returns: None or the user_info dict
Auth0None == [ok |-> FALSE, sub |-> "", email |-> "", is_admin |-> FALSE]
Auth0User_trust_claims(token) ==
    [ok |-> TRUE, sub |-> token.sub, email |-> token.email, is_admin |-> token.is_admin]
Auth0User(token) == [ok |-> TRUE, sub |-> token.sub, email |-> token.email, is_admin |-> FALSE]

\* get_current_auth0_user(credentials): None without credentials, the user on
\* success, and a verification HTTPException is re-raised
get_current_auth0_user(token, cache, fetch, now) ==
    IF ~token.present THEN [raised |-> 0, user |-> Auth0None, cache |-> cache]
    ELSE LET v == verify_auth0_token(token, cache, fetch, now)
         IN IF v.status = 200 THEN [raised |-> 0, user |-> Auth0User(token), cache |-> v.cache]
            ELSE [raised |-> v.status, user |-> Auth0None, cache |-> v.cache]

\* get_current_user_compatible(credentials): the Auth0 user, else (bare
\* `except: pass`) the function ends with `return None`; it is given no
\* request and reads no cookie
compatible_result(u, cookie_token, now, secret) ==
    IF u.raised = 0 /\ u.user.ok THEN u.user ELSE Auth0None

\* a request with bearer and cookie resolved by get_current_user_compatible
GetCurrentUserCompatible(token, cookie_token, fetch) ==
    LET u == get_current_auth0_user(token, jwks, fetch, clock)
    IN /\ jwks' = u.cache
       /\ call' = [op |-> "get_current_user_compatible", at |-> clock,
                   secret |-> ADMIN_SESSION_SECRET, bearer |-> token, cookie |-> cookie_token,
                   remote |-> u.raised, raised |-> 0,
                   result |-> compatible_result(u, cookie_token, clock, ADMIN_SESSION_SECRET)]
       /\ UNCHANGED <<ENVIRONMENT, clock, rlvars, sessvars, DEBUG>>

\* a caller verifies a bearer token: verify_auth0_token(token)
VerifyAuth0Token(token, fetch) ==
    LET v == verify_auth0_token(token, jwks, fetch, clock)
    IN /\ token.present
       /\ jwks' = v.cache
       /\ call' = [op |-> "verify_auth0_token", at |-> clock,
                   secret |-> ADMIN_SESSION_SECRET, bearer |-> token, fetch |-> fetch,
                   cache_before |-> jwks, status |-> v.status, detail |-> v.detail]
       /\ UNCHANGED <<ENVIRONMENT, clock, rlvars, sessvars, DEBUG>>

\* the process is restarted: the lru_cache of get_auth0_jwks starts empty
RestartAuth0 ==
    /\ jwks.cached
    /\ jwks' = NoJwks
    /\ call' = [op |-> "restart", at |-> clock, secret |-> ADMIN_SESSION_SECRET]
    /\ UNCHANGED <<ENVIRONMENT, clock, rlvars, sessvars, DEBUG>>

InitAuth0 ==
    /\ ENVIRONMENT \in Environments
    /\ DEBUG \in BOOLEAN
    /\ ENVIRONMENT = "production" => ~DEBUG
    /\ clock = 0
    /\ requests = [w \in AllWorkers |-> <<>>]
    /\ inflight = {}
    /\ nreq = 0
    /\ decision = NoDecision
    /\ response = NoResponse
    /\ admitted = [w \in AllWorkers |-> [c \in Clients |-> <<>>]]
    /\ ADMIN_SESSION_SECRET = "k1-shared-secret"
    /\ cookie = <<>>
    /\ call = NoCall
    /\ jwks = NoJwks

TickAuth0 == \E d \in AuthClockSteps : Tick(d, MaxAuthClock)
Compatible ==
    \E t \in JwtInputs, c \in AdminCookieInputs, f \in FetchChoices :
        GetCurrentUserCompatible(t, c, f)

VerifyRemote == \E t \in JwtInputs, f \in FetchChoices : VerifyAuth0Token(t, f)

NextAuth0 == TickAuth0 \/ Compatible \/ VerifyRemote \/ RestartAuth0

SpecAuth0 == InitAuth0 /\ [][NextAuth0]_vars

(* ========================= access policy ================================ *)
\* settings.ALLOWED_ADMIN_EMAILS: the default of config.py
ALLOWED_ADMIN_EMAILS == {"giriankit595@outlook.com", "info@cortejtech.com"}
\* allowed_emails of require_auth0_admin: the primary address plus the list
allowed_emails == {lower(ALLOWED_ADMIN_EMAIL)} \cup {lower(e) : e \in ALLOWED_ADMIN_EMAILS}

\* the outcome of a dependency: status 200 stands for "returned `user`",
\* any other status is that of the HTTPException raised (500: an exception
\* that is no HTTPException reaches the server's error handler)
Outcome(status, www_authenticate, user) ==
    [status |-> status, www_authenticate |-> www_authenticate, user |-> user]

\* require_auth0_user(user)
require_auth0_user_403(user) ==
    IF ~user.ok THEN Outcome(403, "", Auth0None) ELSE Outcome(200, "", user)
require_auth0_user(user) ==
    IF ~user.ok THEN Outcome(401, "Bearer", Auth0None) ELSE Outcome(200, "", user)

\* require_auth0_admin(user), user = Depends(require_auth0_user);
\* user.get("email", "") is None when the token had no email claim, and
\* None.lower() raises AttributeError
require_auth0_admin(user) ==
    LET r == require_auth0_user(user)
    IN IF r.status # 200 THEN r
       ELSE IF user.email = AbsentClaim THEN Outcome(500, "", Auth0None)
       ELSE IF lower(user.email) \notin allowed_emails THEN Outcome(403, "", Auth0None)
       ELSE Outcome(200, "", [user EXCEPT !.is_admin = TRUE])

\* require_admin(current_user) of app/core/security.py
require_admin(current_user) ==
    IF ~current_user.ok THEN Outcome(401, "Bearer", UserNone)
    ELSE IF ~current_user.is_admin THEN Outcome(403, "", UserNone)
    ELSE Outcome(200, "", current_user)

\* a request to an endpoint guarded by Depends(require_auth0_user) or
\* Depends(require_auth0_admin): FastAPI resolves get_current_auth0_user
\* first; an HTTPException it raises ends the request before the guard runs
Auth0Guarded(guard, token, fetch) ==
    LET u == get_current_auth0_user(token, jwks, fetch, clock)
        r == IF u.raised # 0
             THEN Outcome(u.raised, IF u.raised = 401 THEN "Bearer" ELSE "", Auth0None)
             ELSE IF guard = "require_auth0_user" THEN require_auth0_user(u.user)
             ELSE require_auth0_admin(u.user)
    IN /\ jwks' = u.cache
       /\ call' = [op |-> guard, at |-> clock, secret |-> ADMIN_SESSION_SECRET,
                   bearer |-> token, resolver |-> u.raised, identity |-> u.user,
                   status |-> r.status, www_authenticate |-> r.www_authenticate,
                   result |-> r.user]
       /\ UNCHANGED <<ENVIRONMENT, clock, rlvars, sessvars, DEBUG>>

\* a request to an endpoint guarded by Depends(require_admin) of security.py
SessionGuarded(bearer, cookie_token) ==
    LET u == get_current_user(bearer, cookie_token, clock, ADMIN_SESSION_SECRET)
        r == require_admin(u)
    IN /\ call' = [op |-> "require_admin", at |-> clock, secret |-> ADMIN_SESSION_SECRET,
                   bearer |-> bearer, cookie |-> cookie_token, resolver |-> 0,
                   identity |-> u, status |-> r.status,
                   www_authenticate |-> r.www_authenticate, result |-> r.user]
       /\ UNCHANGED <<ENVIRONMENT, clock, rlvars, sessvars, a0vars>>

\* inputs: tokens signed by key A for every email, with and without an
\* admin claim of their own; unsigned bearer values and signed cookies
EmailClaims == Emails \cup {AbsentClaim}
PolicyJwtInputs ==
    {NoJwt, GoodJwt("A", "altered", 3603, "list", {AUTH0_AUDIENCE})}
    \cup {[GoodJwt("A", "A", 3603, "list", {AUTH0_AUDIENCE})
              EXCEPT !.email = e, !.is_admin = a] : e \in EmailClaims, a \in BOOLEAN}
PolicyBearerInputs == {NoBearer} \cup {B64Json(e, 0) : e \in Emails}
PolicyCookieInputs ==
    {<<>>} \cup {sign_admin_session(e, 3603, 0, "k1-shared-secret") :
                    e \in Emails \ {""}}

RequireAuth0User ==
    \E t \in PolicyJwtInputs, f \in FetchChoices : Auth0Guarded("require_auth0_user", t, f)
RequireAuth0Admin ==
    \E t \in PolicyJwtInputs, f \in FetchChoices : Auth0Guarded("require_auth0_admin", t, f)
RequireAdmin ==
    \E b \in PolicyBearerInputs, c \in PolicyCookieInputs : SessionGuarded(b, c)

NextPolicy == RequireAuth0User \/ RequireAuth0Admin \/ RequireAdmin \/ RestartAuth0

SpecPolicy == InitAuth0 /\ [][NextPolicy]_vars

(* ========================= app/routers/auth.py ========================== *)
\* SessionLoginRequest.access_token: any string; here what the frontend has
\* from Auth0 (a token of the admin, of another user) or anything else
AccessTokenInputs ==
    {Jwt(TRUE, FALSE, "", "", "", -1, -1, -1, "", "absent", {}, "", ""),
     GoodJwt("A", "altered", 3603, "list", {AUTH0_AUDIENCE}),
     [GoodJwt("A", "A", 3603, "list", {AUTH0_AUDIENCE}) EXCEPT !.email = "eve@example.com"],
     GoodJwt("A", "A", 3603, "list", {AUTH0_AUDIENCE})}

\* POST /session-login: the access_token of the request body is not looked
\* at ("In a full implementation, you'd verify the access_token properly")
session_login(access_token) ==
    /\ IF ALLOWED_ADMIN_EMAIL = "" \/ sign_raises(ADMIN_SESSION_SECRET)
       THEN /\ call' = [op |-> "session_login", at |-> clock,
                        secret |-> ADMIN_SESSION_SECRET, access_token |-> access_token,
                        status |-> 500, set_cookie |-> <<>>]
            /\ UNCHANGED cookie
       ELSE LET t == sign_admin_session(ALLOWED_ADMIN_EMAIL, SESSION_TTL, clock,
                                        ADMIN_SESSION_SECRET)
            IN /\ call' = [op |-> "session_login", at |-> clock,
                           secret |-> ADMIN_SESSION_SECRET, access_token |-> access_token,
                           status |-> 200, set_cookie |-> t]
               /\ cookie' = t
    /\ UNCHANGED <<ENVIRONMENT, clock, rlvars, ADMIN_SESSION_SECRET, a0vars>>

\* `await get_current_user(request)` of is_admin: `credentials` is left at its
\* default, the Depends(security) object, which is truthy and has no
\* attribute `credentials`, so security.py line 69 raises AttributeError
depends_default_has_credentials == FALSE
get_current_user_direct(cookie_token, now, secret) ==
    IF ~depends_default_has_credentials
    THEN [raised |-> TRUE, user |-> UserNone]
    ELSE [raised |-> FALSE, user |-> get_current_user(NoBearer, cookie_token, now, secret)]

\* GET /is-admin: the HTTPException of the else branch and any other
\* exception end in `except Exception` -> 401 "Authentication required"
is_admin(cookie_token, now, secret) ==
    LET r == get_current_user_direct(cookie_token, now, secret)
    IN IF ~r.raised /\ r.user.ok /\ r.user.is_admin
       THEN [status |-> 200, is_admin |-> TRUE, email |-> r.user.email, detail |-> ""]
       ELSE [status |-> 401, is_admin |-> FALSE, email |-> "",
             detail |-> "Authentication required"]

IsAdminCall(cookie_token) ==
    /\ call' = [op |-> "is_admin", at |-> clock, secret |-> ADMIN_SESSION_SECRET,
                cookie |-> cookie_token,
                response |-> is_admin(cookie_token, clock, ADMIN_SESSION_SECRET)]
    /\ UNCHANGED <<ENVIRONMENT, clock, rlvars, sessvars, a0vars>>

\* POST /logout: response.delete_cookie(...) and nothing else; the secret
\* the server verifies with afterwards is the one it had
secret_after_logout_rotated(secret) ==
    IF secret = "k1-shared-secret" THEN "k2-shared-secret" ELSE "k1-shared-secret"
secret_after_logout(secret) == secret

logout ==
    /\ cookie' = <<>>
    /\ ADMIN_SESSION_SECRET' = secret_after_logout(ADMIN_SESSION_SECRET)
    /\ call' = [op |-> "logout", at |-> clock, secret |-> ADMIN_SESSION_SECRET,
                token |-> cookie, status |-> 200]
    /\ UNCHANGED <<ENVIRONMENT, clock, rlvars, a0vars>>

\* a later request that sends, as its admin_session cookie, the token of the
\* session that was logged out: verify_admin_session and get_current_user
PresentLoggedOutToken ==
    /\ call.op \in {"logout", "present_again"}
    /\ call.token # <<>>
    /\ call' = [op |-> "present_again", at |-> clock, secret |-> ADMIN_SESSION_SECRET,
                token |-> call.token,
                logout_at |-> IF call.op = "logout" THEN call.at ELSE call.logout_at,
                verified |-> verify_admin_session(call.token, clock, ADMIN_SESSION_SECRET),
                user |-> get_current_user(NoBearer, call.token, clock, ADMIN_SESSION_SECRET)]
    /\ UNCHANGED <<ENVIRONMENT, clock, rlvars, sessvars, a0vars>>

SessionLogin == \E a \in AccessTokenInputs : session_login(a)
IsAdmin == \E c \in CookieInputs \cup {cookie} : IsAdminCall(c)

NextSession ==
    TickSession \/ RestartAny \/ Sign \/ Verify \/ SessionLogin \/ GetCurrentUser

SpecSession == InitSession /\ [][NextSession]_vars

NextRoutes ==
    TickSession \/ RestartAny \/ SessionLogin \/ IsAdmin \/ logout \/ PresentLoggedOutToken

SpecRoutes == InitSession /\ [][NextRoutes]_vars

(* ===================== admission control: properties ==================== *)
\* number of timestamps of h inside the closed trailing window ending at `now`
Recent(h, now) == Cardinality({i \in 1..Len(h) : h[i] >= now - WindowSeconds /\ h[i] <= now})
\* a request entered dispatch in this step / it was subject to the limit
Entered == nreq' # nreq
EnteredLimited == Entered /\ decision'.outcome # "pass"
IsSuffix(s, t) == Len(s) <= Len(t) /\ \A i \in 1..Len(s) : s[i] = t[Len(t) - Len(s) + i]

\* C2: dispatch rejects a non-exempt request exactly when the client already
\* has at least `limit` admitted requests in the trailing 60 seconds of this
\* middleware instance; hence no 60-second window ending at an admitted
\* request ever holds more than `limit` admitted requests of one client.
C2_RejectIffLimit ==
    /\ [][EnteredLimited =>
            (decision'.outcome = "reject" <=>
               Recent(admitted[decision'.worker][decision'.client], clock)
                  >= requests_per_minute)]_vars
    /\ [](\A w \in AllWorkers, c \in Clients :
            \A i \in 1..Len(admitted[w][c]) :
               Recent(admitted[w][c], admitted[w][c][i]) <= requests_per_minute)
\* the request number limit+1 inside the window is rejected with 429
C2_Witness ==
    /\ decision.outcome = "reject"
    /\ response.status = 429
    /\ Recent(admitted[decision.worker][decision.client], clock) = requests_per_minute

\* C3: once a client was admitted `limit` times, a request less than 60 s
\* after the first of them is rejected, and a request more than 60 s after
\* the last admitted one is admitted again.
C3_RejectThenRecover ==
    [][EnteredLimited =>
         LET h == admitted[decision'.worker][decision'.client] IN
         /\ (\E i \in 1..Len(h) : /\ i + requests_per_minute - 1 <= Len(h)
                                   /\ clock < h[i] + WindowSeconds)
               => decision'.outcome = "reject"
         /\ (Len(h) >= requests_per_minute /\ clock > h[Len(h)] + WindowSeconds)
               => decision'.outcome = "admit"]_vars
\* a client rejected at the limit is admitted again after the window elapsed
C3_Witness ==
    /\ decision.outcome = "admit"
    /\ response.status = 429
    /\ LET h == admitted[decision.worker][decision.client] IN
         /\ Len(h) = requests_per_minute + 1
         /\ h[Len(h)] > h[Len(h) - 1] + WindowSeconds

\* C4: a request of one client leaves the window of every other client as
\* it was, and a client's window holds only that client's own admitted
\* timestamps (so its decision is a function of its own requests).
C4_ClientIsolation ==
    /\ [][Entered =>
            \A w \in AllWorkers, c \in Clients :
               c # decision'.client => Window(w, client_ip(c))' = Window(w, client_ip(c))]_vars
    /\ [](\A w \in AllWorkers, c \in Clients :
            IsSuffix(Window(w, client_ip(c)), admitted[w][c]))
\* client 2 is admitted up to its limit while client 1 is at its limit
C4_Witness ==
    /\ decision.outcome = "admit" /\ decision.client = "10.0.0.2"
    /\ Len(Window(decision.worker, client_ip("10.0.0.1"))) = requests_per_minute
    /\ Len(Window(decision.worker, client_ip("10.0.0.2"))) = requests_per_minute

\* C5: with requests of one client in flight concurrently, every admitted
\* request is recorded exactly once in the window that decides the next
\* request, and no client is admitted more than `limit` times in 60 seconds.
C5_NoLostAdmission ==
    \A c \in Clients :
        /\ \A w \in AllWorkers : IsSuffix(Window(w, client_ip(c)), admitted[w][c])
        /\ Cardinality({x \in AllWorkers \X (1..MaxReqs) :
                          /\ x[2] <= Len(admitted[x[1]][c])
                          /\ admitted[x[1]][c][x[2]] >= clock - WindowSeconds})
              <= requests_per_minute

\* C18: a request with method OPTIONS or to /health, /, /docs or /redoc can
\* always be served, is passed on whatever the client's window holds, and
\* leaves the windows exactly as they were: no key is created, nothing is
\* pruned or appended.
C18_ExemptAlwaysPass ==
    /\ [][\A w \in Workers, c \in Clients, m \in Methods, p \in Paths :
            ((m = "OPTIONS" \/ p \in {"/health", "/", "/docs", "/redoc"})
             /\ DispatchEnter(w, c, m, p))
               => /\ decision'.outcome = "pass"
                  /\ response'.status = 200
                  /\ requests' = requests
                  /\ admitted' = admitted]_vars
    /\ [](nreq < MaxReqs =>
            \A w \in Workers, c \in Clients, m \in Methods, p \in Paths :
                (m = "OPTIONS" \/ p \in {"/health", "/", "/docs", "/redoc"})
                   => ENABLED DispatchEnter(w, c, m, p))
\* an exempt request of a client whose window is full is passed on
C18_Witness ==
    /\ decision.outcome = "pass" /\ response.status = 200
    /\ Len(Window(decision.worker, client_ip(decision.client))) = requests_per_minute

\* C19: a rejected request is answered 429 with Retry-After 60 and remaining
\* 0, is not handed to call_next, and appends nothing: the client's window
\* after the rejection is what pruning left of it.
C19_RejectResponse ==
    [][(EnteredLimited /\ decision'.outcome = "reject")
          => /\ response'.status = 429
             /\ response'.retry_after = 60
             /\ response'.remaining = 0
             /\ inflight' = inflight
             /\ admitted' = admitted
             /\ \A w \in AllWorkers, c \in Clients :
                   (decision'.worker = w /\ decision'.client = c)
                      => /\ Window(w, client_ip(c))'
                              = Prune(Window(w, client_ip(c)), clock - WindowSeconds)
                         /\ IsSuffix(Window(w, client_ip(c))', Window(w, client_ip(c)))]_vars
\* a request beyond the limit was rejected while no request is downstream
C19_Witness ==
    /\ decision.outcome = "reject"
    /\ response.retry_after = 60 /\ response.remaining = 0
    /\ inflight = {}
    /\ nreq > requests_per_minute

\* C20: the X-RateLimit-Remaining of an admitted request is the limit minus
\* the length of the client's window right after the request's own append.
C20_RemainingAtAppend ==
    (response.status = 200 /\ response.len_after # -1)
        => response.remaining = requests_per_minute - response.len_after

(* ====================== admin session: properties ======================= *)
\* C6: with a configured secret, verifying a token at the instant it was
\* signed for a non-empty email and a ttl > 0 returns exactly that email.
C6_RoundTrip ==
    (call.op = "sign" /\ ~call.raised /\ call.email # "" /\ call.ttl > 0)
        => call.result = Some(call.email)
\* a mixed-case address signed for one second comes back unchanged
C6_Witness ==
    /\ call.op = "sign" /\ call.ttl = 1 /\ call.at > 0
    /\ call.email = "GiriAnkit595@Outlook.com"
    /\ call.result = Some("GiriAnkit595@Outlook.com")

\* C7: verify_admin_session returns not-valid for every token whose exp has
\* been reached (now >= exp); the clock never goes back, so a token rejected
\* for expiry is rejected by every later verify.
C7_ExpiryIsFinal ==
    /\ []((call.op = "verify" /\ call.token # <<>> /\ call.at >= call.token[1].exp)
            => ~call.result.ok)
    /\ [](\A t \in TokenInputs \cup {cookie} :
            (t # <<>> /\ clock >= t[1].exp)
               => verify_admin_session(t, clock, ADMIN_SESSION_SECRET) = None)
    /\ [][clock' >= clock]_vars
\* the cookie of a login is refused at the very second it expires
C7_Witness ==
    /\ call.op = "verify" /\ call.token = cookie /\ cookie # <<>>
    /\ rejected_for_expiry(cookie, call.at, call.secret)
    /\ call.at = cookie[1].exp
    /\ call.result = None

\* C8: a token is accepted only when its signature is the HMAC of its
\* payload under the secret configured at verification time; a token signed
\* under another secret is not valid.
C8_CurrentSecretOnly ==
    (call.op = "verify" /\ call.result.ok)
        => /\ Len(call.token) = 2
           /\ call.token[2] = hmac_sig(call.secret, <<call.token[1]>>)
\* the unexpired cookie of a login is refused after a restart with another secret
C8_Witness ==
    /\ call.op = "verify" /\ call.token = cookie /\ cookie # <<>>
    /\ call.secret # "" /\ cookie[2].key # call.secret
    /\ call.at < cookie[1].exp
    /\ call.result = None

C23_SplitAtLastDot ==
    (call.op = "verify" /\ Len(call.token) >= 2 /\ call.secret # "")
        => /\ call.sig_ok
                <=> call.token[Len(call.token)]
                       = hmac_sig(call.secret, SubSeq(call.token, 1, Len(call.token) - 1))
           /\ ~call.sig_ok => (~call.decoded /\ call.result = None)
\* C23 amended: payload and signature are separated at the first '.': the
\* signature is checked over the text before the first '.' against all the
\* text after it, so a token with more than one '.' never matches; on a
\* mismatch the result is not-valid and the payload is not decoded.
C23_SplitAtFirstDot ==
    (call.op = "verify" /\ Len(call.token) >= 2 /\ call.secret # "")
        => /\ call.sig_ok
                <=> SubSeq(call.token, 2, Len(call.token))
                       = <<hmac_sig(call.secret, <<call.token[1]>>)>>
           /\ Len(call.token) > 2 => ~call.sig_ok
           /\ ~call.sig_ok => (~call.decoded /\ call.result = None)
\* a token with two '.', signed under the configured secret over all the
\* text before its last '.', is refused at the signature comparison
C23_Witness ==
    /\ call.op = "verify" /\ Len(call.token) = 3 /\ call.secret # ""
    /\ call.token[3] = hmac_sig(call.secret, <<call.token[1], call.token[2]>>)
    /\ ~call.sig_ok /\ ~call.decoded /\ call.result = None

\* C24: when the bearer path does not resolve and the session cookie
\* verifies, get_current_user returns an identity carrying the verified email
\* whatever that email is; on the cookie path it returns None only when
\* verification of the cookie fails.
C24_CookieIdentityForAnyEmail ==
    (call.op = "get_current_user" /\ ~bearer_session_ok(call.bearer, call.at)
                                  /\ call.cookie # <<>>)
        => LET r == verify_admin_session(call.cookie, call.at, call.secret)
           IN /\ r.ok => (call.result.ok /\ call.result.email = r.email)
              /\ ~call.result.ok => ~r.ok

\* C25: the clients that own a window only grow: a client's window exists
\* from its first non-exempt request on and is never removed, so the windows
\* of a worker are exactly those of the clients that ever sent it a
\* non-exempt request, and as many.
C25_WindowsOnlyGrow ==
    /\ [](\A w \in AllWorkers :
            LET senders == {c \in Clients : admitted[w][c] # <<>>}
            IN /\ DOMAIN requests[w] = {client_ip(c) : c \in senders}
               /\ Cardinality(DOMAIN requests[w]) = Cardinality(senders))
    /\ [][\A w \in AllWorkers : DOMAIN requests[w] \subseteq DOMAIN requests'[w]]_vars
\* another client has just been served while a window whose every timestamp
\* is older than the 60 seconds is still there
C25_Witness ==
    \E w \in AllWorkers : \E k \in DOMAIN requests[w] :
        /\ requests[w][k][Len(requests[w][k])] < clock - WindowSeconds
        /\ decision.worker = w /\ decision.outcome = "admit"
        /\ client_ip(decision.client) # k

\* the access token verifies against the tenant's keys and names an
\* allow-listed admin
IsAdminAccessToken(token, now) ==
    \E f \in FetchOutcomes :
        /\ verify_auth0_token(token, NoJwks, f, now).status = 200
        /\ token.email # AbsentClaim /\ lower(token.email) \in allowed_emails

\* C26: POST /session-login issues a signed admin session only after the
\* access_token of the request has been verified as belonging to an
\* allow-listed admin: a request whose access_token is no such token leaves
\* with no cookie that get_current_user accepts.
C26_LoginRequiresVerifiedAdmin ==
    (call.op = "session_login" /\ ~IsAdminAccessToken(call.access_token, call.at))
        => /\ call.status # 200
           /\ \/ call.set_cookie = <<>>
              \/ ~get_current_user(NoBearer, call.set_cookie, call.at, call.secret).ok

\* C27: every window is in non-decreasing timestamp order; right after a
\* non-exempt request at time now every timestamp of that client's window
\* lies in [now - 60, now], every earlier timestamp that is not strictly
\* older than now - 60 is still in it, and a request exactly 60 seconds after
\* `limit` simultaneous requests is rejected.
C27_WindowBounds ==
    /\ [](\A w \in AllWorkers : \A k \in DOMAIN requests[w] :
            \A i, j \in 1..Len(requests[w][k]) :
                i <= j => requests[w][k][i] <= requests[w][k][j])
    /\ [][EnteredLimited
            => \A w \in AllWorkers, c \in Clients :
                 (decision'.worker = w /\ decision'.client = c)
                    => LET old == Window(w, client_ip(c))
                           kept == {i \in 1..Len(old) : old[i] >= clock - WindowSeconds}
                       IN /\ \A i \in 1..Len(Window(w, client_ip(c))') :
                                /\ Window(w, client_ip(c))'[i] >= clock - WindowSeconds
                                /\ Window(w, client_ip(c))'[i] <= clock
                          /\ Len(Window(w, client_ip(c))') >= Cardinality(kept)
                          /\ (/\ Len(old) >= requests_per_minute
                              /\ \A i \in 1..Len(old) : old[i] = clock - WindowSeconds)
                                => decision'.outcome = "reject"]_vars
\* a request is rejected exactly 60 seconds after the `limit` simultaneous
\* requests that fill its client's window
C27_Witness ==
    /\ decision.outcome = "reject"
    /\ \E w \in AllWorkers, c \in Clients :
          /\ decision.worker = w /\ decision.client = c
          /\ Len(Window(w, client_ip(c))) = requests_per_minute
          /\ \A i \in 1..Len(Window(w, client_ip(c))) :
                Window(w, client_ip(c))[i] = clock - WindowSeconds

\* C28: logout does not revoke a session. POST /logout changes nothing the
\* server holds, and the token of the logged-out session, presented again, is
\* accepted by verify_admin_session and by get_current_user exactly as long
\* as it is signed with the server's current secret and has not expired.
C28_LogoutDoesNotRevoke ==
    /\ [](call.op = "present_again"
            => LET t == call.token
                   live == /\ call.secret # ""
                           /\ t[2] = hmac_sig(call.secret, <<t[1]>>)
                           /\ call.at < t[1].exp
               IN /\ call.verified.ok <=> live
                  /\ call.user.ok <=> live
                  /\ live => /\ call.verified.email = t[1].email
                             /\ call.user.email = t[1].email)
    /\ [][call'.op = "logout" /\ call' # call
            => /\ ADMIN_SESSION_SECRET' = ADMIN_SESSION_SECRET
               /\ UNCHANGED <<ENVIRONMENT, clock, rlvars, a0vars>>
               /\ call'.token = cookie /\ cookie' = <<>>]_vars
\* after the logout, and later than it, the browser holds no cookie and the
\* token of the logged-out session still resolves to the admin
C28_Witness ==
    /\ call.op = "present_again"
    /\ call.at > call.logout_at
    /\ cookie = <<>>
    /\ call.verified.ok /\ call.user.ok /\ call.user.is_admin

\* C29: require_auth0_admin refuses every verified identity that is not
\* allow-listed with 403, the identity of a token without email claim
\* included, and never with another status.
C29_NotAllowListedIs403 ==
    (/\ call.op = "require_auth0_admin" /\ call.resolver = 0 /\ call.identity.ok
     /\ \/ call.identity.email = AbsentClaim
        \/ lower(call.identity.email) \notin allowed_emails)
        => call.status = 403

\* C30: GET /is-admin answers {is_admin: true, email} whenever the request
\* carries a valid, unexpired admin session cookie for the admin email, and
\* 401 only when it carries none: it resolves the cookie as the require_admin
\* dependency does.
C30_IsAdminResolvesCookie ==
    call.op = "is_admin"
        => LET u == get_current_user(NoBearer, call.cookie, call.at, call.secret)
               r == require_admin(u)
           IN /\ (u.ok /\ u.is_admin)
                    => /\ call.response.status = 200
                       /\ call.response.is_admin
                       /\ call.response.email = u.email
              /\ call.response.status = 401 => ~(u.ok /\ u.is_admin)
              /\ call.response.status = 200 <=> r.status = 200

\* C1: get_current_user returns an identity only for a credential whose
\* signature was checked against the configured secret and matched; an
\* unsigned bearer value never yields an identity.
C1_OnlyVerifiedCredentials ==
    (call.op = "get_current_user" /\ call.result.ok)
        => /\ call.secret # ""
           /\ Len(call.cookie) = 2
           /\ call.cookie[2] = hmac_sig(call.secret, <<call.cookie[1]>>)
           /\ call.result.email = call.cookie[1].email

(* ===================== identity resolution: properties ================== *)
\* C10: when a bearer token is present and its remote verification fails,
\* get_current_user_compatible raises nothing and answers with what the
\* session cookie yields: the cookie's identity when the cookie is valid,
\* Anonymous when it is absent or invalid.
C10_FallbackToCookie ==
    (call.op = "get_current_user_compatible" /\ call.bearer.present /\ call.remote # 0)
        => /\ call.raised = 0
           /\ LET c == get_current_user(NoBearer, call.cookie, call.at, call.secret)
              IN call.result.ok = c.ok /\ call.result.email = c.email

(* ===================== remote verification: properties ================== *)
\* the key set verify_auth0_token works with in the recorded call: the cached
\* one, else the one the fetch delivered
KeysKnown == call.cache_before.cached \/ call.fetch.ok
KeysUsed == IF call.cache_before.cached THEN call.cache_before.keys ELSE call.fetch.keys
KeyResolved == call.bearer.wellformed /\ KeysKnown /\ call.bearer.kid \in KeysUsed

\* C11: when the key-set fetch fails, the caller of verify_auth0_token sees
\* the service-unavailable failure, HTTP 503, and no other status.
C11_FetchFailureIs503 ==
    (/\ call.op = "verify_auth0_token"
     /\ call.bearer.wellformed
     /\ ~call.cache_before.cached /\ ~call.fetch.ok)
        => call.status = 503

\* C12: when the token's kid matches no key of the key set, the caller of
\* verify_auth0_token sees the KeyNotFound authentication failure, HTTP 401.
C12_UnknownKidIs401 ==
    (/\ call.op = "verify_auth0_token"
     /\ call.bearer.wellformed
     /\ KeysKnown /\ call.bearer.kid \notin KeysUsed)
        => call.status = 401

\* C13: a token that is unexpired, signed by the key of the key set its kid
\* names, with the configured issuer, the allowed algorithm and the API
\* audience (as a string or inside a list) verifies in every configuration.
C13_ValidTokenVerifies ==
    (/\ call.op = "verify_auth0_token"
     /\ KeyResolved
     /\ call.bearer.signer = call.bearer.kid
     /\ call.bearer.alg \in ALGORITHMS
     /\ call.bearer.iat # -1 /\ call.bearer.exp > call.at
     /\ call.bearer.nbf <= call.at
     /\ call.bearer.iss = AUTH0_ISSUER
     /\ call.bearer.aud_kind \in {"str", "list"} /\ AUTH0_AUDIENCE \in call.bearer.aud)
        => call.status = 200

\* C14: verify_auth0_token returns claims only for a token whose signature is
\* valid for the resolved key and that is unexpired; with the key resolved, an
\* altered signature always gives the signature failure (401) and a validly
\* signed token past its expiry always gives the expiry failure (401).
C14_SoundRemoteVerification ==
    call.op = "verify_auth0_token" =>
        /\ call.status = 200
              => (KeyResolved /\ call.bearer.signer = call.bearer.kid
                  /\ call.bearer.exp >= call.at)
        /\ (KeyResolved /\ call.bearer.signer # call.bearer.kid)
              => (call.status = 401 /\ call.detail = "Invalid token")
        /\ (/\ KeyResolved /\ call.bearer.signer = call.bearer.kid
            /\ call.bearer.alg \in ALGORITHMS /\ call.bearer.iat # -1
            /\ call.bearer.nbf <= call.at
            /\ call.bearer.exp # -1 /\ call.bearer.exp < call.at)
              => (call.status = 401 /\ call.detail = "Token has expired")

(* ========================= access policy: properties ==================== *)
Auth0Guards == {"require_auth0_user", "require_auth0_admin"}
Guards == Auth0Guards \cup {"require_admin"}
\* the guard of the recorded request ran (the resolver raised nothing)
GuardRan == call.op \in Guards /\ call.resolver = 0

\* C15: on both authentication paths an identity passes the admin
\* requirement iff its email, lower-cased, is in the allow-list (primary
\* address plus extension list), and every other email is refused with 403.
C15_SameAdminDetermination ==
    /\ (/\ call.op = "require_auth0_admin" /\ call.resolver = 0
        /\ call.identity.ok /\ call.identity.email # AbsentClaim)
          => /\ call.status = 200 <=> lower(call.identity.email) \in allowed_emails
             /\ call.status \in {200, 403}
    /\ (/\ call.op = "require_admin" /\ call.bearer.kind = "none"
        /\ verify_admin_session(call.cookie, call.at, call.secret).ok)
          => LET email == verify_admin_session(call.cookie, call.at, call.secret).email
             IN /\ call.status = 200 <=> lower(email) \in allowed_emails
                /\ call.status \in {200, 403}

\* C16: an identity with is_admin = true has an email of the allow-list, and
\* an admin claim carried by the token itself never sets the flag.
C16_AdminFlagOnlyFromAllowList ==
    call.op \in Guards =>
        /\ call.identity.is_admin => lower(call.identity.email) \in allowed_emails
        /\ call.result.is_admin
              => (call.status = 200 /\ lower(call.result.email) \in allowed_emails)
        /\ (call.op \in Auth0Guards /\ call.bearer.is_admin
            /\ lower(call.bearer.email) \notin allowed_emails)
              => (~call.identity.is_admin /\ ~call.result.is_admin)
\* a verified token of a non-admin that claims is_admin itself is refused
\* with 403 by require_auth0_admin
C16_Witness ==
    /\ call.op = "require_auth0_admin" /\ call.resolver = 0
    /\ call.bearer.is_admin /\ call.bearer.email = "eve@example.com"
    /\ call.identity.ok /\ call.status = 403 /\ ~call.result.is_admin

\* C17: a guard given the anonymous identity fails with 401 and
\* WWW-Authenticate: Bearer, never 403; 403 is raised only for an
\* authenticated identity that is no admin; on success the guard returns the
\* identity it was given.
C17_AuthRequiredBeforeAdminRequired ==
    GuardRan =>
        /\ ~call.identity.ok => (call.status = 401 /\ call.www_authenticate = "Bearer")
        /\ call.status = 403
              => /\ call.identity.ok
                 /\ call.op # "require_auth0_user"
                 /\ IF call.op = "require_admin" THEN ~call.identity.is_admin
                    ELSE lower(call.identity.email) \notin allowed_emails
        /\ call.status = 200
              => /\ call.identity.ok /\ call.result.ok
                 /\ call.result.email = call.identity.email
\* a request without credentials reaches require_auth0_admin and gets 401
\* with the Bearer challenge
C17_Witness ==
    /\ call.op = "require_auth0_admin" /\ call.resolver = 0
    /\ ~call.bearer.present /\ ~call.identity.ok
    /\ call.status = 401 /\ call.www_authenticate = "Bearer"

\* C21: get_auth0_jwks has a single cache slot and fetches only on a miss:
\* with a key set cached every call returns that key set whatever the
\* endpoint would serve, a failed fetch stores nothing (the next call
\* fetches again), a successful fetch stores what it got, and a cached key
\* set is never replaced while the process runs.
C21_SingleSlotCache ==
    /\ [](\A f \in FetchOutcomes :
            LET r == get_auth0_jwks(jwks, f)
            IN /\ jwks.cached => (r.raised = 0 /\ r.keys = jwks.keys /\ r.cache = jwks)
               /\ (~jwks.cached /\ ~f.ok) => (r.raised = 503 /\ r.cache = NoJwks)
               /\ (~jwks.cached /\ f.ok)
                     => (r.raised = 0 /\ r.keys = f.keys
                         /\ r.cache = [cached |-> TRUE, keys |-> f.keys]))
    /\ []((call.op = "verify_auth0_token" /\ call.cache_before.cached)
             => jwks = call.cache_before)
    /\ [][jwks.cached => (jwks' = jwks \/ jwks' = NoJwks)]_vars
    /\ [][(~jwks.cached /\ jwks'.cached)
             => (call'.op = "verify_auth0_token" => call'.fetch.ok /\ jwks'.keys = call'.fetch.keys)]_vars
\* a token is verified with the cached key set {B} although its key A would
\* need a new fetch
C21_Witness ==
    /\ call.op = "verify_auth0_token"
    /\ call.cache_before = [cached |-> TRUE, keys |-> {"B"}]
    /\ call.bearer.kid = "A" /\ call.bearer.signer = "A"
    /\ jwks = call.cache_before
    /\ call.status # 200

\* C22: the audience check is skipped exactly in development with DEBUG;
\* otherwise a token whose aud is the front-end client id is verified against
\* it and every other token against the API audience, the outcome being
\* success or a claims failure (401).
C22_AudiencePolicy ==
    (/\ call.op = "verify_auth0_token"
     /\ KeyResolved
     /\ call.bearer.signer = call.bearer.kid
     /\ call.bearer.alg \in ALGORITHMS
     /\ call.bearer.iat # -1 /\ call.bearer.exp > call.at
     /\ call.bearer.nbf <= call.at
     /\ call.bearer.iss = AUTH0_ISSUER
     /\ call.bearer.aud_kind \in {"str", "list"})
        => IF ENVIRONMENT = "development" /\ DEBUG
           THEN call.status = 200
           ELSE LET expected ==
                        IF call.bearer.aud_kind = "str"
                           /\ call.bearer.aud = {NEXT_PUBLIC_AUTH0_CLIENT_ID}
                        THEN NEXT_PUBLIC_AUTH0_CLIENT_ID ELSE AUTH0_AUDIENCE
                IN /\ call.status = 200 <=> expected \in call.bearer.aud
                   /\ call.status # 200
                         => (call.status = 401 /\ call.detail = "Invalid token claims")

====
